---- MODULE Spec2Model ----
(***************************************************************************)
(* Court assignment and rotation of pickle_on.py: the Player record, the   *)
(* pairing engine assign_players_to_courts, the round transition           *)
(* rotate_players, and the callers start_game_logic and                    *)
(* remove_player_logic that keep the roster.                               *)
(*                                                                         *)
(* Players are identified by name (Player.__eq__ and __hash__ use the name *)
(* alone); names are the integers 1..MaxPlayers, all distinct.  Every      *)
(* random.shuffle and every random.random() sort key is a nondeterministic *)
(* choice.                                                                 *)
(***************************************************************************)
EXTENDS Integers, Sequences, FiniteSets, TLC

\* ---------------------------------------------------------------- bounds
MaxPlayers == 5
MaxCourts == 2
MaxRounds == 4
MaxRoundsFive == 7
MaxRoundsNine == 2
MaxRemoved == 1
MaxRoundsFour == 6
MaxRoundsEight == 3
MaxRoundsRank == 3
MaxPlayersAssign == 6
MaxCourtsTurns == 1
MaxRoundsSession == 3
MaxSessions == 2
MaxSaves == 3
MaxRoundsTurns == 3
MaxCalls == 2
MaxPerCourt == 5

\* ------------------------------------------------------ program constants
players_per_court == 4
MinPlayersToStart == 4

VARIABLES
    all_players,                \* st.session_state.all_players: list of names
    num_courts,                 \* st.session_state.num_courts
    game_number,                \* st.session_state.game_number
    game_started,               \* st.session_state.game_started
    current_assignments,        \* st.session_state.current_assignments
    current_sitting_out,        \* st.session_state.current_sitting_out
    games_played,               \* Player.games_played, by name
    games_sat_out,              \* Player.games_sat_out, by name
    current_status,             \* Player.current_status, by name
    partners,                   \* Player.partners, by name
    played_consecutive_games,   \* Player.played_consecutive_games, by name
    hist,                       \* history: what each round did
    removed,                    \* history: the number of players removed
    op,                         \* history: the operation that produced this state
    session_id,                 \* st.session_state.session_id, 0 for None
    store,                      \* st.session_state.GLOBAL_SESSION_STORE
    sheet,                      \* the rows of the worksheet "Sessions", by session_id
    saver,                      \* the calls of save_session_data in progress
    ppc_arg                     \* history: players_per_court of a direct call

vars == <<all_players, num_courts, game_number, game_started,
          current_assignments, current_sitting_out, games_played,
          games_sat_out, current_status, partners,
          played_consecutive_games, hist, removed, op,
          session_id, store, sheet, saver, ppc_arg>>

\* the variables of the shared session and of the direct calls
sessionVars == <<session_id, store, sheet, saver, ppc_arg>>

\* --------------------------------------------------------------- helpers
Range(s) == {s[i] : i \in DOMAIN s}

Max(a, b) == IF a >= b THEN a ELSE b

Min(a, b) == IF a <= b THEN a ELSE b

\* every ordering of the set S as a list
RECURSIVE Orderings(_)
Orderings(S) ==
    IF S = {} THEN {<< >>}
    ELSE UNION {{<<x>> \o t : t \in Orderings(S \ {x})} : x \in S}

\* the players seated in a list of courts, as a set
Seated(courts) == UNION {Range(courts[i]) : i \in DOMAIN courts}

\* the concatenation of the courts: [p for court in courts for p in court]
RECURSIVE Flatten(_)
Flatten(courts) ==
    IF courts = << >> THEN << >>
    ELSE Head(courts) \o Flatten(Tail(courts))

\* ---------------------------------------------------------------- Player
\* Player.__init__: the fields of a new player
NewPlayers(names) ==
    [games_played |-> [p \in names |-> 0],
     games_sat_out |-> [p \in names |-> 0],
     current_status |-> [p \in names |-> "available"],
     partners |-> [p \in names |-> {}],
     played_consecutive_games |-> [p \in names |-> 0]]

\* the fields of the roster's players as one record
Roster ==
    [games_played |-> games_played,
     games_sat_out |-> games_sat_out,
     current_status |-> current_status,
     partners |-> partners,
     played_consecutive_games |-> played_consecutive_games]

\* ------------------------------------------------ assign_players_to_courts
\* line 117: the candidates not yet assigned in this call
PotentialCourtPlayers(eligible, assigned) == eligible \ assigned

\* line 119: too few candidates are left to fill a court
TooFewForCourt(potential, ppc) == Cardinality(potential) < ppc

\* PotentialP1s without games_played in the key of line 123
PotentialP1s_IgnoresPlayed(potential, ps) ==
    {p \in potential : \A q \in potential :
        Cardinality(ps.partners[p]) <= Cardinality(ps.partners[q])}

\* lines 123-125: the anchor is first in ascending order of
\* (len(partners), games_played, random.random())
PotentialP1s(potential, ps) ==
    {p \in potential : \A q \in potential :
        \/ Cardinality(ps.partners[p]) < Cardinality(ps.partners[q])
        \/ /\ Cardinality(ps.partners[p]) = Cardinality(ps.partners[q])
           /\ ps.games_played[p] <= ps.games_played[q]}

\* lines 130, 150, 162: the candidates of this court not yet assigned
RemainingFor(potential, assigned) == potential \ assigned

\* lines 136-137, 156-157, 168-169: a stable sort by len(partners) of a list
\* in shuffled order (line 111) puts any player of minimum len(partners) first
FewestPartners(cands, ps) ==
    {p \in cands : \A q \in cands :
        Cardinality(ps.partners[p]) <= Cardinality(ps.partners[q])}

\* lines 139-140, 171-172: first in ascending order of
\* (len(p.partners & {anchor}), random.random())
FewestRepeats(cands, anchor, ps) ==
    {p \in cands : \A q \in cands :
        Cardinality(ps.partners[p] \cap {anchor})
            <= Cardinality(ps.partners[q] \cap {anchor})}

\* PartnerChoices without the fall-back on players who partnered the anchor
PartnerChoices_NoRepeat(anchor, remaining, ps) ==
    LET no_partner == {p \in remaining : p \notin ps.partners[anchor]}
    IN  IF no_partner # {} THEN FewestPartners(no_partner, ps) ELSE {}

\* PartnerChoices with the branches of lines 135 and 138 swapped: a player
\* who has partnered the anchor is picked when there is one
PartnerChoices_RepeatFirst(anchor, remaining, ps) ==
    LET no_partner == {p \in remaining : p \notin ps.partners[anchor]}
        with_partner == {p \in remaining : p \in ps.partners[anchor]}
    IN  IF with_partner # {} THEN FewestRepeats(with_partner, anchor, ps)
        ELSE IF no_partner # {} THEN FewestPartners(no_partner, ps)
        ELSE {}

\* PartnerChoices without the sort of lines 136 and 168: any player who has
\* not partnered the anchor is picked
PartnerChoices_AnyNonPartner(anchor, remaining, ps) ==
    LET no_partner == {p \in remaining : p \notin ps.partners[anchor]}
        with_partner == {p \in remaining : p \in ps.partners[anchor]}
    IN  IF no_partner # {} THEN no_partner
        ELSE IF with_partner # {} THEN FewestRepeats(with_partner, anchor, ps)
        ELSE {}

\* PartnerChoices without the preference of lines 132-137 for the players
\* who have not partnered the anchor
PartnerChoices_Any(anchor, remaining, ps) ==
    FewestPartners(remaining, ps)

\* lines 132-144 and 164-177: the players that may be picked as the anchor's
\* partner; the empty set when no candidate is left
PartnerChoices(anchor, remaining, ps) ==
    LET no_partner == {p \in remaining : p \notin ps.partners[anchor]}
        with_partner == {p \in remaining : p \in ps.partners[anchor]}
    IN  IF no_partner # {} THEN FewestPartners(no_partner, ps)
        ELSE IF with_partner # {} THEN FewestRepeats(with_partner, anchor, ps)
        ELSE {}

\* RecordPartners when the two opponents are added as well
RecordPartners_WithOpponents(prt, p1, p2, p3, p4) ==
    [p \in DOMAIN prt |->
        IF p \in {p1, p2, p3, p4} THEN prt[p] \cup ({p1, p2, p3, p4} \ {p})
        ELSE prt[p]]

\* RecordPartners without p2.partners.add(p1) and p4.partners.add(p3)
RecordPartners_OneWay(prt, p1, p2, p3, p4) ==
    [p \in DOMAIN prt |->
        IF p = p1 THEN prt[p] \cup {p2}
        ELSE IF p = p3 THEN prt[p] \cup {p4}
        ELSE prt[p]]

\* lines 183-186: the two partnerships of a court
RecordPartners(prt, p1, p2, p3, p4) ==
    [p \in DOMAIN prt |->
        IF p = p1 THEN prt[p] \cup {p2}
        ELSE IF p = p2 THEN prt[p] \cup {p1}
        ELSE IF p = p3 THEN prt[p] \cup {p4}
        ELSE IF p = p4 THEN prt[p] \cup {p3}
        ELSE prt[p]]

\* MarkPlaying without the increment of line 190
MarkPlaying_NoIncrement(ps, court) ==
    [ps EXCEPT
        !.current_status =
            [p \in DOMAIN @ |-> IF p \in Range(court) THEN "playing" ELSE @[p]]]

\* MarkPlaying without the status assignment of line 189
MarkPlaying_NoStatus(ps, court) ==
    [ps EXCEPT
        !.played_consecutive_games =
            [p \in DOMAIN @ |-> IF p \in Range(court) THEN @[p] + 1 ELSE @[p]]]

\* lines 188-190: the players of a formed court
MarkPlaying(ps, court) ==
    [ps EXCEPT
        !.current_status =
            [p \in DOMAIN @ |-> IF p \in Range(court) THEN "playing" ELSE @[p]],
        !.played_consecutive_games =
            [p \in DOMAIN @ |-> IF p \in Range(court) THEN @[p] + 1 ELSE @[p]]]

\* SeatCourt when line 179 appends p3 in place of p4
SeatCourt_SeatsP3Twice(st, court) ==
    [ps |-> MarkPlaying(
                [st.ps EXCEPT !.partners =
                    RecordPartners(@, court[1], court[2], court[3], court[4])],
                court),
     courts |-> Append(st.courts, <<court[1], court[2], court[3], court[3]>>),
     assigned |-> st.assigned \cup Range(court)]

\* lines 179-192: the court is complete
SeatCourt(st, court) ==
    [ps |-> MarkPlaying(
                [st.ps EXCEPT !.partners =
                    RecordPartners(@, court[1], court[2], court[3], court[4])],
                court),
     courts |-> Append(st.courts, court),
     assigned |-> st.assigned \cup Range(court)]

\* the state of the call once the courts of the list formed are seated, from
\* the state of line 113
RECURSIVE AfterCourts(_, _)
AfterCourts(ps, formed) ==
    IF formed = << >> THEN [ps |-> ps, courts |-> << >>, assigned |-> {}]
    ELSE SeatCourt(AfterCourts(ps, SubSeq(formed, 1, Len(formed) - 1)),
                   formed[Len(formed)])

\* PickP4 when lines 173-177 seat p1 a second time in place of giving the
\* court up
PickP4_FillsWithP1(st, potential, p1, p2, p3) ==
    LET remaining == RemainingFor(potential, st.assigned \cup {p1, p2, p3})
        p4s == PartnerChoices(p3, remaining, st.ps)
    IN  IF p4s = {} THEN {Append(st.courts, <<p1, p2, p3, p1>>)}
        ELSE {Append(st.courts, <<p1, p2, p3, p4>>) : p4 \in p4s}

\* lines 161-180: pick p4; without a candidate the court is given up and
\* p1, p2, p3 are released (lines 174-177).  The value is the set of court
\* lists the iteration can end with.
PickP4(st, potential, p1, p2, p3) ==
    LET remaining == RemainingFor(potential, st.assigned \cup {p1, p2, p3})
        p4s == PartnerChoices(p3, remaining, st.ps)
    IN  IF p4s = {} THEN {st.courts}
        ELSE {Append(st.courts, <<p1, p2, p3, p4>>) : p4 \in p4s}

\* lines 149-159: pick p3; without a candidate p1 and p2 are released
PickP3(st, potential, p1, p2) ==
    LET remaining == RemainingFor(potential, st.assigned \cup {p1, p2})
    IN  IF remaining = {} THEN {st.courts}
        ELSE UNION {PickP4(st, potential, p1, p2, p3) :
                        p3 \in FewestPartners(remaining, st.ps)}

\* lines 129-147: pick p2; without a candidate p1 is released
PickP2(st, potential, p1) ==
    LET remaining == RemainingFor(potential, st.assigned \cup {p1})
        p2s == PartnerChoices(p1, remaining, st.ps)
    IN  IF p2s = {} THEN {st.courts}
        ELSE UNION {PickP3(st, potential, p1, p2) : p2 \in p2s}

\* lines 115-192: the iterations left of `for _ in range(num_courts)`, with
\* the courts of the list formed seated so far
RECURSIVE CourtLoop(_, _, _, _, _)
CourtLoop(left, eligible, ppc, ps, formed) ==
    LET st == AfterCourts(ps, formed)
        potential == PotentialCourtPlayers(eligible, st.assigned)
    IN  IF left <= 0 THEN {formed}
        ELSE IF TooFewForCourt(potential, ppc) \/ potential = {} THEN {formed}
        ELSE UNION {UNION {CourtLoop(left - 1, eligible, ppc, ps, f2) :
                               f2 \in PickP2(st, potential, p1)} :
                       p1 \in PotentialP1s(potential, st.ps)}

\* lines 108-192: the court lists the call can form, over every outcome of
\* the shuffle and of the random sort keys
CourtChoices(ps, eligible, courts, ppc) ==
    CourtLoop(courts, eligible, ppc, ps, << >>)

\* line 194: the candidates never assigned
FinalUnassigned(eligible, assigned) == eligible \ assigned

\* line 194: the list final_unassigned keeps the order of eligible_players,
\* which the callers shuffle (lines 237, 400): any order
UnassignedChoices(ps, eligible, formed) ==
    Orderings(FinalUnassigned(eligible, AfterCourts(ps, formed).assigned))

\* MarkUnassigned without the reset of line 197
MarkUnassigned_NoReset(ps, unassigned) ==
    [ps EXCEPT
        !.current_status =
            [p \in DOMAIN @ |->
                IF p \in Range(unassigned) THEN "sitting_out" ELSE @[p]]]

\* lines 195-197: the candidates never assigned are marked
MarkUnassigned(ps, unassigned) ==
    [ps EXCEPT
        !.current_status =
            [p \in DOMAIN @ |->
                IF p \in Range(unassigned) THEN "sitting_out" ELSE @[p]],
        !.played_consecutive_games =
            [p \in DOMAIN @ |-> IF p \in Range(unassigned) THEN 0 ELSE @[p]]]

\* lines 103-199: the result of the call when the random choices form the
\* courts of the list formed (one of CourtChoices) and leave final_unassigned
\* in the order unassigned (one of UnassignedChoices)
assign_players_to_courts(ps, formed, unassigned) ==
    LET st == AfterCourts(ps, formed)
    IN  [ps |-> MarkUnassigned(st.ps, unassigned),
         courts |-> st.courts,
         unassigned |-> unassigned]

\* ---------------------------------------------------------- rotate_players
\* Bookkeeping without the increment of line 212
Bookkeeping_NoPlayedCount(ps) ==
    [ps EXCEPT
        !.games_sat_out =
            [p \in DOMAIN @ |->
                IF ps.current_status[p] = "sitting_out" THEN @[p] + 1 ELSE @[p]],
        !.played_consecutive_games =
            [p \in DOMAIN @ |->
                IF ps.current_status[p] = "sitting_out" THEN 0 ELSE @[p]],
        !.current_status = [p \in DOMAIN @ |-> "available"]]

\* lines 210-216: the statuses of the previous round are counted, then every
\* player becomes available
Bookkeeping(ps) ==
    [ps EXCEPT
        !.games_played =
            [p \in DOMAIN @ |->
                IF ps.current_status[p] = "playing" THEN @[p] + 1 ELSE @[p]],
        !.games_sat_out =
            [p \in DOMAIN @ |->
                IF ps.current_status[p] = "sitting_out" THEN @[p] + 1 ELSE @[p]],
        !.played_consecutive_games =
            [p \in DOMAIN @ |->
                IF ps.current_status[p] = "sitting_out" THEN 0 ELSE @[p]],
        !.current_status = [p \in DOMAIN @ |-> "available"]]

\* NumToSitOut resting one player more
NumToSitOut_OneMore(num_players, courts) ==
    Max(0, num_players - courts * players_per_court + 1)

\* lines 207, 219: num_to_sit_out
NumToSitOut(num_players, courts) ==
    Max(0, num_players - courts * players_per_court)

\* SitOutKeyLeq with games_played ascending: the key without the minus sign
\* of its second component
SitOutKeyLeq_FewestPlayedFirst(p, q, ps) ==
    \/ ps.played_consecutive_games[p] > ps.played_consecutive_games[q]
    \/ /\ ps.played_consecutive_games[p] = ps.played_consecutive_games[q]
       /\ \/ ps.games_played[p] < ps.games_played[q]
          \/ /\ ps.games_played[p] = ps.games_played[q]
             /\ ps.games_sat_out[p] <= ps.games_sat_out[q]

\* SitOutKeyLeq with played_consecutive_games ascending: the key without the
\* minus sign of its first component
SitOutKeyLeq_Ascending(p, q, ps) ==
    \/ ps.played_consecutive_games[p] < ps.played_consecutive_games[q]
    \/ /\ ps.played_consecutive_games[p] = ps.played_consecutive_games[q]
       /\ \/ ps.games_played[p] > ps.games_played[q]
          \/ /\ ps.games_played[p] = ps.games_played[q]
             /\ ps.games_sat_out[p] <= ps.games_sat_out[q]

\* line 230: p sorts before q, or ties with it, on the key
\* (-played_consecutive_games, -games_played, games_sat_out)
SitOutKeyLeq(p, q, ps) ==
    \/ ps.played_consecutive_games[p] > ps.played_consecutive_games[q]
    \/ /\ ps.played_consecutive_games[p] = ps.played_consecutive_games[q]
       /\ \/ ps.games_played[p] > ps.games_played[q]
          \/ /\ ps.games_played[p] = ps.games_played[q]
             /\ ps.games_sat_out[p] <= ps.games_sat_out[q]

\* lines 228-233: sit_out_candidates[:k]; random.random() is the last key, so
\* players that tie on the key come in any order
RECURSIVE SitOutChoices(_, _, _)
SitOutChoices(cands, k, ps) ==
    IF k <= 0 \/ cands = {} THEN {<< >>}
    ELSE UNION {{<<p>> \o t : t \in SitOutChoices(cands \ {p}, k - 1, ps)} :
                    p \in {c \in cands : \A q \in cands : SitOutKeyLeq(c, q, ps)}}

\* SitOutForThisRound when lines 228-231 do not sort: any k players rest
SitOutForThisRound_Unranked(roster, k, ps) ==
    IF k = 0 THEN {<< >>}
    ELSE UNION {Orderings(S) : S \in {T \in SUBSET roster : Cardinality(T) = k}}

\* lines 221-235: the players chosen to rest, for every outcome of the sort
SitOutForThisRound(roster, k, ps) ==
    IF k = 0 THEN {<< >>}
    ELSE SitOutChoices({p \in roster : ps.current_status[p] = "available"}, k, ps)

\* PlayersForNextGame without the filter on sit_out_for_this_round
PlayersForNextGame_All(roster, sit_out) == roster

\* lines 225, 235: the players handed to the pairing engine
PlayersForNextGame(roster, sit_out) == roster \ Range(sit_out)

\* Absorbed when the unassigned players are not added to the sit-out list
Absorbed_None(unassigned, sit_out) == << >>

\* lines 241-243: the unassigned players that join the sit-out list
Absorbed(unassigned, sit_out) ==
    LET fresh(p) == p \notin Range(sit_out)
    IN  SelectSeq(unassigned, fresh)

\* lines 244-246: the stat updates of the players absorbed
MarkAbsorbed(ps, absorbed) ==
    [ps EXCEPT
        !.current_status =
            [p \in DOMAIN @ |->
                IF p \in Range(absorbed) THEN "sitting_out" ELSE @[p]],
        !.games_sat_out =
            [p \in DOMAIN @ |-> IF p \in Range(absorbed) THEN @[p] + 1 ELSE @[p]],
        !.played_consecutive_games =
            [p \in DOMAIN @ |-> IF p \in Range(absorbed) THEN 0 ELSE @[p]]]

\* MarkSittingOut with the increment of line 245 repeated for everyone in the
\* final sit-out list
MarkSittingOut_Counts(ps, sit_out) ==
    [ps EXCEPT
        !.current_status =
            [p \in DOMAIN @ |->
                IF p \in Range(sit_out) THEN "sitting_out" ELSE @[p]],
        !.games_sat_out =
            [p \in DOMAIN @ |-> IF p \in Range(sit_out) THEN @[p] + 1 ELSE @[p]],
        !.played_consecutive_games =
            [p \in DOMAIN @ |-> IF p \in Range(sit_out) THEN 0 ELSE @[p]]]

\* MarkSittingOut without the reset of line 250
MarkSittingOut_StatusOnly(ps, sit_out) ==
    [ps EXCEPT
        !.current_status =
            [p \in DOMAIN @ |->
                IF p \in Range(sit_out) THEN "sitting_out" ELSE @[p]]]

\* lines 248-250: everyone in the final sit-out list
MarkSittingOut(ps, sit_out) ==
    [ps EXCEPT
        !.current_status =
            [p \in DOMAIN @ |->
                IF p \in Range(sit_out) THEN "sitting_out" ELSE @[p]],
        !.played_consecutive_games =
            [p \in DOMAIN @ |-> IF p \in Range(sit_out) THEN 0 ELSE @[p]]]

\* lines 201-252: the result of the call when the sort of line 228 puts the
\* players of sit_out first (one of SitOutForThisRound) and the pairing engine
\* forms the courts of formed and leaves unassigned.  courts and sitting_out
\* are the returned pair; ranked and players_for_next_game are the values of
\* the locals sit_out_for_this_round (line 233) and players_for_next_game
\* (line 237).
rotate_players(ps, players, sit_out, formed, unassigned) ==
    LET res == assign_players_to_courts(Bookkeeping(ps), formed, unassigned)
        absorbed == Absorbed(res.unassigned, sit_out)
        sitting == sit_out \o absorbed
    IN  [ps |-> MarkSittingOut(MarkAbsorbed(res.ps, absorbed), sitting),
         courts |-> res.courts,
         sitting_out |-> sitting,
         ranked |-> sit_out,
         players_for_next_game |-> PlayersForNextGame(Range(players), sit_out)]

\* ------------------------------------------------------------ the session
\* history: the teams of the courts that had partnered before the round
RepeatPairs(prt, courts) ==
    {<<i, j>> \in (DOMAIN courts) \X {1, 3} : courts[i][j + 1] \in prt[courts[i][j]]}

\* history: every two of the candidates had partnered before the round
Saturated(prt, cands) ==
    \A a \in cands : \A b \in cands \ {a} : b \in prt[a]

\* history: what a round did
RoundRecord(prt, cands, ranked, courts, sitting) ==
    [seated |-> Seated(courts),
     rested |-> Range(sitting),
     ranked |-> Range(ranked),
     candidates |-> Cardinality(cands),
     repeats |-> Cardinality(RepeatPairs(prt, courts)),
     saturated |-> Saturated(prt, cands)]

\* a dict or a sheet with the value v under the key k
PutRow(f, k, v) == [x \in DOMAIN f \cup {k} |-> IF x = k THEN v ELSE f[x]]

\* line 57: json.dumps(history_list), a string that holds the list
JsonDumps(history) == <<"json", history>>

\* line 32: json.loads of the data column
JsonLoads(data) == data[2]

\* lines 21-36, 313-317: the history loaded from the sheet, [] when the
\* session has no row
LoadedHistory(rows, sid) ==
    IF sid \in DOMAIN rows THEN JsonLoads(rows[sid]) ELSE << >>

\* lines 279-301: get_current_state_for_history
get_current_state_for_history(gn, nc, courts, sitting, players, ps) ==
    [game_number |-> gn,
     num_courts |-> nc,
     court_assignments |-> courts,
     sitting_out |-> sitting,
     all_players_stats |->
        [i \in DOMAIN players |->
            [name |-> players[i],
             played |-> ps.games_played[players[i]],
             sat_out |-> ps.games_sat_out[players[i]]]]]

\* HistoryWith when a list that has an entry is left as it is
HistoryWith_Stale(history, state) ==
    IF history # << >> THEN history ELSE Append(history, state)

\* lines 321-325: one state per game_number, the last entry overwritten when
\* it is of the same game
HistoryWith(history, state) ==
    IF history # << >> /\ history[Len(history)].game_number = state.game_number
    THEN [history EXCEPT ![Len(history)] = state]
    ELSE Append(history, state)

\* lines 305-325: GLOBAL_SESSION_STORE after update_session_history, before
\* its save
update_session_history(sid, st, rows, state) ==
    LET known == IF sid \in DOMAIN st THEN st
                 ELSE PutRow(st, sid, LoadedHistory(rows, sid))
    IN  PutRow(known, sid, HistoryWith(known[sid], state))

\* line 54: GLOBAL_SESSION_STORE.get(session_id, [])
StoredHistory(st, sid) == IF sid \in DOMAIN st THEN st[sid] ELSE << >>

\* lines 56-72: the rows written back by save_session_data when its read of
\* line 48 returned rows: the session's row is replaced or added, every
\* other row is written as it was read (the timestamp column is left out)
save_session_data(rows, sid, history) == PutRow(rows, sid, JsonDumps(history))

\* a browser session that is not saving and has no history yet
IdleSaver == [pc |-> "idle", df |-> << >>, history |-> << >>]

\* lines 13-14, 265: no session, an empty local store; no row in the sheet and
\* no save in progress
SessionInit ==
    /\ session_id = 0
    /\ store = << >>
    /\ sheet = << >>
    /\ saver = [sid \in 1..MaxSessions |-> IdleSaver]
    /\ ppc_arg = 0

\* lines 265-273: the session state before a game is started
Init ==
    /\ SessionInit
    /\ all_players = << >>
    /\ num_courts = 0
    /\ game_number = 0
    /\ game_started = FALSE
    /\ current_assignments = << >>
    /\ current_sitting_out = << >>
    /\ games_played = << >>
    /\ games_sat_out = << >>
    /\ current_status = << >>
    /\ partners = << >>
    /\ played_consecutive_games = << >>
    /\ hist = << >>
    /\ removed = 0
    /\ op = "init"

\* the player fields become those of ps
SetRoster(ps) ==
    /\ games_played' = ps.games_played
    /\ games_sat_out' = ps.games_sat_out
    /\ current_status' = ps.current_status
    /\ partners' = ps.partners
    /\ played_consecutive_games' = ps.played_consecutive_games

\* lines 404-410: start_game_logic sets the statuses of the first round
FirstRoundStats(ps, courts) ==
    [ps EXCEPT
        !.current_status =
            [p \in DOMAIN @ |->
                IF p \in Range(Flatten(courts)) THEN "playing" ELSE "sitting_out"],
        !.games_sat_out =
            [p \in DOMAIN @ |->
                IF p \in Range(Flatten(courts)) THEN @[p] ELSE @[p] + 1],
        !.played_consecutive_games =
            [p \in DOMAIN @ |->
                IF p \in Range(Flatten(courts)) THEN @[p] ELSE 0]]

\* lines 393-413: the session state start_game_logic leaves when the pairing
\* engine returns res
StartOutcome(n, c, res) ==
    [all_players |-> [i \in 1..n |-> i],
     num_courts |-> c,
     game_number |-> 1,
     game_started |-> TRUE,
     ps |-> FirstRoundStats(res.ps, res.courts),
     current_assignments |-> res.courts,
     current_sitting_out |-> res.unassigned,
     hist |-> <<RoundRecord([p \in 1..n |-> {}], 1..n, << >>,
                            res.courts, res.unassigned)>>]

\* lines 365-367: no name was entered
NoNames(n) == n = 0

\* lines 369-376: int(num_courts_input) raises ValueError (the input is not
\* numeric) or the court count is not positive
InvalidCourts(c, numeric) == ~numeric \/ c <= 0

\* TooFewPlayers without the check of lines 384-386
TooFewPlayers_Never(n) == FALSE

\* lines 384-386: fewer than 4 names
TooFewPlayers(n) == n < MinPlayersToStart

\* lines 361-386: start_game_logic with n names and the court input c
\* (numeric or not) returns at one of its three checks, before any
\* assignment to the session state and before the pairing engine is called
StartRejected(n, c, numeric) ==
    /\ ~game_started
    /\ NoNames(n) \/ InvalidCourts(c, numeric) \/ TooFewPlayers(n)
    /\ op' = "rejected"
    /\ UNCHANGED <<all_players, num_courts, game_number, game_started,
                   current_assignments, current_sitting_out,
                   games_played, games_sat_out, current_status, partners,
                   played_consecutive_games, hist, removed>>
    /\ UNCHANGED sessionVars

\* lines 361-416: start_game_logic with n names entered and c courts.  The
\* call returns without a change when no name is entered, the court count is
\* not positive or fewer than 4 names are entered (lines 365-386); the Start
\* button is disabled once a game is started (line 711).
StartGame(n, c) ==
    /\ ~game_started
    /\ ~NoNames(n)
    /\ ~InvalidCourts(c, TRUE)
    /\ ~TooFewPlayers(n)
    /\ \E formed \in CourtChoices(NewPlayers(1..n), 1..n, c, players_per_court) :
        \E un \in UnassignedChoices(NewPlayers(1..n), 1..n, formed) :
        \E s \in {StartOutcome(n, c,
                    assign_players_to_courts(NewPlayers(1..n), formed, un))} :
            /\ SetRoster(s.ps)
            /\ all_players' = s.all_players
            /\ num_courts' = s.num_courts
            /\ game_number' = s.game_number
            /\ game_started' = s.game_started
            /\ current_assignments' = s.current_assignments
            /\ current_sitting_out' = s.current_sitting_out
            /\ hist' = s.hist
    /\ removed' = 0
    /\ op' = "start"
    /\ UNCHANGED sessionVars

\* lines 348-356: create_session_logic gives the started game the new id sid,
\* an empty history in the local store, and records and saves the current
\* game; the button is shown only for a started game without a session
\* (lines 675-680)
CreateSession(sid) ==
    /\ game_started
    /\ session_id = 0
    /\ sid \notin DOMAIN sheet
    /\ session_id' = sid
    /\ \E st \in {update_session_history(
                    sid, PutRow(store, sid, << >>), sheet,
                    get_current_state_for_history(
                        game_number, num_courts, current_assignments,
                        current_sitting_out, all_players, Roster))} :
        /\ store' = st
        /\ sheet' = save_session_data(sheet, sid, StoredHistory(st, sid))
    /\ op' = "create"
    /\ UNCHANGED <<all_players, num_courts, game_number, game_started,
                   current_assignments, current_sitting_out,
                   games_played, games_sat_out, current_status, partners,
                   played_consecutive_games, hist, removed, saver, ppc_arg>>

\* lines 428-431: next_game_logic returns when fewer than 4 players are left
TooFewToRotate(players) == Len(players) < players_per_court

\* lines 437-440: a round by rotate_players(all_players, num_courts), its
\* result kept as the current round; at most maxRounds rounds are explored
RotatePlayers(maxRounds) ==
    /\ Len(hist) < maxRounds
    /\ LET booked == Bookkeeping(Roster)
           roster == Range(all_players)
       IN
        \E sit_out \in SitOutForThisRound(
                roster, NumToSitOut(Len(all_players), num_courts), booked) :
        \E formed \in CourtChoices(
                booked, PlayersForNextGame(roster, sit_out),
                num_courts, players_per_court) :
        \E un \in UnassignedChoices(
                booked, PlayersForNextGame(roster, sit_out), formed) :
        \E res \in {rotate_players(Roster, all_players, sit_out, formed, un)} :
        /\ SetRoster(res.ps)
        /\ current_assignments' = res.courts
        /\ current_sitting_out' = res.sitting_out
        /\ hist' = Append(hist, RoundRecord(partners, res.players_for_next_game,
                                             res.ranked, res.courts,
                                             res.sitting_out))

\* lines 419-448: next_game_logic: the game number goes up, rotate_players
\* makes the round, its result is kept as the current round and, with a
\* session active, the state of the new game is added to the history and
\* saved (lines 445-446); the button is disabled before a game is started
\* (line 715)
RotateRound(maxRounds) ==
    /\ game_started
    /\ ~TooFewToRotate(all_players)
    /\ game_number' = game_number + 1
    /\ RotatePlayers(maxRounds)
    /\ IF session_id # 0
        THEN \E st \in {update_session_history(
                    session_id, store, sheet,
                    get_current_state_for_history(
                        game_number', num_courts, current_assignments',
                        current_sitting_out', all_players,
                        [games_played |-> games_played',
                         games_sat_out |-> games_sat_out']))} :
                /\ store' = st
                /\ sheet' = save_session_data(
                                sheet, session_id,
                                StoredHistory(st, session_id))
        ELSE UNCHANGED <<store, sheet>>
    /\ op' = "rotate"
    /\ UNCHANGED <<all_players, num_courts, game_started, removed,
                   session_id, saver, ppc_arg>>

\* lines 201-252: rotate_players(all_players, num_courts) called on a roster
\* of fewer than 4 players, the call next_game_logic does not make (lines
\* 429-431): the function called on its own, its result kept as the round
RotateCall(maxRounds) ==
    /\ game_started
    /\ TooFewToRotate(all_players)
    /\ RotatePlayers(maxRounds)
    /\ op' = "rotate"
    /\ UNCHANGED <<all_players, num_courts, game_number, game_started,
                   removed>>
    /\ UNCHANGED sessionVars

\* line 485: all_players.remove(player_found)
RemoveFromList(players, name) ==
    LET keep(p) == p # name
    IN  SelectSeq(players, keep)

\* PurgePartner without the loop of lines 486-488
PurgePartner_None(prt, roster, name) ==
    [p \in roster |-> prt[p]]

\* lines 486-488: the removed player leaves every partners set
PurgePartner(prt, roster, name) ==
    [p \in roster |-> prt[p] \ {name}]

\* lines 473-496: remove_player_logic for a name of the roster; for any
\* other name the call changes nothing (line 496); at most MaxRemoved
\* removals are explored
RemovePlayer(name) ==
    /\ name \in Range(all_players)
    /\ removed < MaxRemoved
    /\ LET players == RemoveFromList(all_players, name)
           roster == Range(players)
       IN  /\ all_players' = players
           /\ partners' = PurgePartner(partners, roster, name)
           /\ games_played' = [p \in roster |-> games_played[p]]
           /\ games_sat_out' = [p \in roster |-> games_sat_out[p]]
           /\ current_status' = [p \in roster |-> current_status[p]]
           /\ played_consecutive_games' =
                [p \in roster |-> played_consecutive_games[p]]
    /\ removed' = removed + 1
    /\ op' = "remove"
    /\ UNCHANGED <<num_courts, game_number, game_started,
                   current_assignments, current_sitting_out, hist>>
    /\ UNCHANGED sessionVars

Next ==
    \/ \E n \in 1..MaxPlayers, c \in 1..MaxCourts : StartGame(n, c)
    \/ RotateRound(MaxRounds)
    \/ RotateCall(MaxRounds)
    \/ \E name \in 1..MaxPlayers : RemovePlayer(name)

Spec == Init /\ [][Next]_vars

\* a fixed roster of 5 players on 1 court
NextFive ==
    \/ StartGame(5, 1)
    \/ RotateRound(MaxRoundsFive)

SpecFive == Init /\ [][NextFive]_vars

\* the pairing engine's result for 9 new players and 2 courts when it seats
\* 1..8 in name order and leaves 9 out
NineInOrder ==
    assign_players_to_courts(NewPlayers(1..9),
                             <<<<1, 2, 3, 4>>, <<5, 6, 7, 8>>>>, <<9>>)

\* 9 players on 2 courts after start_game_logic seated 1..8 in name order:
\* one of the results of the first round (all 9 players tie on every key),
\* and every other one is a renaming of it
InitNine ==
    LET s == StartOutcome(9, 2, NineInOrder)
    IN  /\ SessionInit
        /\ all_players = s.all_players
        /\ num_courts = s.num_courts
        /\ game_number = s.game_number
        /\ game_started = s.game_started
        /\ current_assignments = s.current_assignments
        /\ current_sitting_out = s.current_sitting_out
        /\ games_played = s.ps.games_played
        /\ games_sat_out = s.ps.games_sat_out
        /\ current_status = s.ps.current_status
        /\ partners = s.ps.partners
        /\ played_consecutive_games = s.ps.played_consecutive_games
        /\ hist = s.hist
        /\ removed = 0
        /\ op = "start"

NextNine == RotateRound(MaxRoundsNine)

SpecNine == InitNine /\ [][NextNine]_vars

\* a fixed roster of 4 players on 1 court
NextFour ==
    \/ StartGame(4, 1)
    \/ RotateRound(MaxRoundsFour)

SpecFour == Init /\ [][NextFour]_vars

\* the pairing engine's result for 8 new players and 2 courts when it seats
\* them in name order
EightInOrder ==
    assign_players_to_courts(NewPlayers(1..8),
                             <<<<1, 2, 3, 4>>, <<5, 6, 7, 8>>>>, << >>)

\* 8 players on 2 courts after start_game_logic seated them in name order:
\* one of the results of the first round (all 8 players tie on every key),
\* and every other one is a renaming of it
InitEight ==
    LET s == StartOutcome(8, 2, EightInOrder)
    IN  /\ SessionInit
        /\ all_players = s.all_players
        /\ num_courts = s.num_courts
        /\ game_number = s.game_number
        /\ game_started = s.game_started
        /\ current_assignments = s.current_assignments
        /\ current_sitting_out = s.current_sitting_out
        /\ games_played = s.ps.games_played
        /\ games_sat_out = s.ps.games_sat_out
        /\ current_status = s.ps.current_status
        /\ partners = s.ps.partners
        /\ played_consecutive_games = s.ps.played_consecutive_games
        /\ hist = s.hist
        /\ removed = 0
        /\ op = "start"

\* the players who have had at most one partner
Locked == {p \in Range(all_players) : Cardinality(partners[p]) <= 1}

\* the second round is explored in full; later rounds are explored from the
\* states in which the players still locked are 7 and 8.  In every state the
\* second round leaves with a player locked, all players tie on status,
\* games_played and streak and the partner relation is one cycle through six
\* players plus the locked pair (C16_NoPermanentLock), so each is a renaming
\* of a state with 7 and 8 locked.
NextEight ==
    /\ Len(hist) = 1 \/ Locked = {7, 8}
    /\ RotateRound(MaxRoundsEight)

SpecEight == InitEight /\ [][NextEight]_vars

\* 9 players on 1 court after start_game_logic seated 1..4 in name order
RankFirstRound ==
    StartOutcome(9, 1,
        assign_players_to_courts(NewPlayers(1..9),
                                 <<<<1, 2, 3, 4>>>>, <<5, 6, 7, 8, 9>>))

\* the choices of the second round: the four players of the first court and
\* player 5 rest, 6..9 are seated in name order
RankSecondSitOut == <<1, 2, 3, 4, 5>>

RankSecondCourts == <<<<6, 7, 8, 9>>>>

\* the second round of rotate_players with these choices
RankSecondRound ==
    rotate_players(RankFirstRound.ps, RankFirstRound.all_players,
                   RankSecondSitOut, RankSecondCourts, << >>)

\* 9 players on 1 court after two rounds, player 5 having rested in both.
\* The first two conjuncts make the second round one that rotate_players can
\* produce from the first.
InitRank ==
    /\ SessionInit
    /\ RankSecondSitOut \in SitOutForThisRound(
            1..9, NumToSitOut(9, 1), Bookkeeping(RankFirstRound.ps))
    /\ RankSecondCourts \in CourtChoices(
            Bookkeeping(RankFirstRound.ps),
            PlayersForNextGame(1..9, RankSecondSitOut), 1, players_per_court)
    /\ all_players = RankFirstRound.all_players
    /\ num_courts = RankFirstRound.num_courts
    /\ game_number = RankFirstRound.game_number
    /\ game_started = RankFirstRound.game_started
    /\ current_assignments = RankSecondRound.courts
    /\ current_sitting_out = RankSecondRound.sitting_out
    /\ games_played = RankSecondRound.ps.games_played
    /\ games_sat_out = RankSecondRound.ps.games_sat_out
    /\ current_status = RankSecondRound.ps.current_status
    /\ partners = RankSecondRound.ps.partners
    /\ played_consecutive_games = RankSecondRound.ps.played_consecutive_games
    /\ hist = Append(RankFirstRound.hist,
                     RoundRecord(RankFirstRound.ps.partners,
                                 RankSecondRound.players_for_next_game,
                                 RankSecondRound.ranked,
                                 RankSecondRound.courts,
                                 RankSecondRound.sitting_out))
    /\ removed = 0
    /\ op = "rotate"

NextRank == RotateRound(MaxRoundsRank)

SpecRank == InitRank /\ [][NextRank]_vars

\* the pairing engine's result for n new players and c courts when it seats
\* 1..4c in name order and leaves the others out in name order
SeatedInOrder(n, c) ==
    assign_players_to_courts(
        NewPlayers(1..n),
        [i \in 1..c |-> [j \in 1..players_per_court |->
                            players_per_court * (i - 1) + j]],
        [i \in 1..(n - players_per_court * c) |-> players_per_court * c + i])

\* a roster of n players on c courts, 4c < n <= 8c, after start_game_logic
\* seated 1..4c in name order: one of the results of the first round (all
\* players tie on every key), and every other one is a renaming of it
InitTurns ==
    \E c \in 1..MaxCourtsTurns :
    \E n \in (players_per_court * c + 1)..(2 * players_per_court * c) :
    \E s \in {StartOutcome(n, c, SeatedInOrder(n, c))} :
        /\ SessionInit
        /\ all_players = s.all_players
        /\ num_courts = s.num_courts
        /\ game_number = s.game_number
        /\ game_started = s.game_started
        /\ current_assignments = s.current_assignments
        /\ current_sitting_out = s.current_sitting_out
        /\ games_played = s.ps.games_played
        /\ games_sat_out = s.ps.games_sat_out
        /\ current_status = s.ps.current_status
        /\ partners = s.ps.partners
        /\ played_consecutive_games = s.ps.played_consecutive_games
        /\ hist = s.hist
        /\ removed = 0
        /\ op = "start"

NextTurns == RotateRound(MaxRoundsTurns)

SpecTurns == InitTurns /\ [][NextTurns]_vars

\* a game with a shareable session: starts, refused starts, the creation of
\* the session and rounds
NextSession ==
    \/ \E n \in 0..MaxPlayers, c \in (-1)..MaxCourts : StartGame(n, c)
    \/ \E n \in 0..MaxPlayers, c \in (-1)..MaxCourts, numeric \in BOOLEAN :
            StartRejected(n, c, numeric)
    \/ \E sid \in 1..MaxSessions : CreateSession(sid)
    \/ RotateRound(MaxRoundsSession)

SpecSession == Init /\ [][NextSession]_vars

\* lines 38-48 in the browser session of sid: the state of its next game is
\* in its history (lines 319-325) and save_session_data has read the whole
\* worksheet into df; at most MaxSaves saves of a session are explored
SaveRead(sid) ==
    /\ saver[sid].pc = "idle"
    /\ Len(saver[sid].history) < MaxSaves
    /\ saver' = [saver EXCEPT ![sid] =
            [pc |-> "read",
             df |-> sheet,
             history |-> HistoryWith(@.history,
                                     [game_number |-> Len(@.history) + 1])]]
    /\ op' = "read"
    /\ UNCHANGED <<all_players, num_courts, game_number, game_started,
                   current_assignments, current_sitting_out,
                   games_played, games_sat_out, current_status, partners,
                   played_consecutive_games, hist, removed,
                   session_id, store, sheet, ppc_arg>>

\* lines 54-72 in the browser session of sid: its row is set in df and the
\* whole df is written over the worksheet
SaveWrite(sid) ==
    /\ saver[sid].pc = "read"
    /\ sheet' = save_session_data(saver[sid].df, sid, saver[sid].history)
    /\ saver' = [saver EXCEPT ![sid] = [@ EXCEPT !.pc = "idle", !.df = << >>]]
    /\ op' = "write"
    /\ UNCHANGED <<all_players, num_courts, game_number, game_started,
                   current_assignments, current_sitting_out,
                   games_played, games_sat_out, current_status, partners,
                   played_consecutive_games, hist, removed,
                   session_id, store, ppc_arg>>

\* the Streamlit script threads of MaxSessions browser sessions, each saving
\* its own session to the shared worksheet
NextSheet ==
    \/ \E sid \in 1..MaxSessions : SaveRead(sid)
    \/ \E sid \in 1..MaxSessions : SaveWrite(sid)

SpecSheet == Init /\ [][NextSheet]_vars

\* lines 103-199: a direct call assign_players_to_courts(players, c, ppc) on
\* n players: new players in the first call, the same players with the fields
\* the first call left in a second call with the same arguments.  At most
\* MaxCalls calls are explored.
AssignCall(n, c, ppc) ==
    /\ ~game_started
    /\ Len(hist) < MaxCalls
    /\ hist # << >> => n = Len(all_players) /\ c = num_courts /\ ppc = ppc_arg
    /\ LET ps == IF hist = << >> THEN NewPlayers(1..n) ELSE Roster
       IN
        \E formed \in CourtChoices(ps, 1..n, c, ppc) :
        \E un \in UnassignedChoices(ps, 1..n, formed) :
        \E res \in {assign_players_to_courts(ps, formed, un)} :
        /\ SetRoster(res.ps)
        /\ current_assignments' = res.courts
        /\ current_sitting_out' = res.unassigned
        /\ hist' = Append(hist, RoundRecord(ps.partners, 1..n, << >>,
                                             res.courts, res.unassigned))
    /\ all_players' = [i \in 1..n |-> i]
    /\ num_courts' = c
    /\ ppc_arg' = ppc
    /\ op' = "assign"
    /\ UNCHANGED <<game_number, game_started, removed,
                   session_id, store, sheet, saver>>

NextAssign ==
    \E n \in 1..MaxPlayersAssign, c \in 1..MaxCourts, ppc \in 1..MaxPerCourt :
        AssignCall(n, c, ppc)

SpecAssign == Init /\ [][NextAssign]_vars

\* ----------------------------------------------------------------- claims
Last(s) == s[Len(s)]

\* a step that is a round of rotate_players
RotateStep == op' = "rotate" /\ hist' # hist

\* C1: after every rotate_players round the seats of the courts returned and
\* the players of the sitting-out list returned add up to the roster:
\* len(courts)*4 + len(sitting_out) = len(all_players).
C1_SeatsAndRestersAddUp ==
    op = "rotate" =>
        Len(current_assignments) * 4 + Len(current_sitting_out)
            = Len(all_players)

\* a round on fewer players than seats: a court is formed and the players
\* left over are absorbed into the sitting-out list
C1_Witness ==
    /\ op = "rotate"
    /\ Len(all_players) < num_courts * 4
    /\ Len(current_assignments) >= 1
    /\ Last(hist).ranked = {}
    /\ Len(current_sitting_out) >= 1

\* C2: in the result of every round no player has two seats, in two courts or
\* in one, and no seated player is in the returned sitting-out list.
C2_NoPlayerSeatedTwice ==
    LET seats == Flatten(current_assignments)
    IN  /\ \A i \in DOMAIN seats : \A j \in DOMAIN seats :
                i # j => seats[i] # seats[j]
        /\ \A i \in DOMAIN seats : \A j \in DOMAIN current_sitting_out :
                seats[i] # current_sitting_out[j]

\* a round of rotate_players with two courts and a player resting
C2_Witness ==
    /\ op = "rotate"
    /\ Len(current_assignments) = 2
    /\ Len(current_sitting_out) >= 1

\* C3: after every round and after every removal, B is in A.partners iff A is
\* in B.partners, for all players A and B of the roster.
C3_PartnersSymmetric ==
    \A a \in Range(all_players) : \A b \in Range(all_players) :
        (b \in partners[a]) <=> (a \in partners[b])

\* a removal after two rounds took a partner away from a player who keeps
\* another partner
C3_Witness ==
    /\ op = "remove"
    /\ Len(hist) >= 2
    /\ \E a \in Range(all_players) :
        /\ Cardinality(partners[a]) = 1
        /\ \A i \in DOMAIN hist : a \in hist[i].seated

\* C4: the pairing engine forms exactly min(num_courts, floor(n/4)) courts
\* from its n candidates, each of 4 different players, whatever the partner
\* history is.
C4_CourtsFormed ==
    op \in {"start", "rotate"} =>
        /\ Len(current_assignments)
            = Min(num_courts, Last(hist).candidates \div 4)
        /\ \A i \in DOMAIN current_assignments :
            /\ Len(current_assignments[i]) = 4
            /\ Cardinality(Range(current_assignments[i])) = 4

\* a round whose candidates had all partnered each other before: both teams
\* of the court formed are repeats
C4_Witness ==
    /\ op = "rotate"
    /\ Last(hist).candidates >= 4
    /\ Last(hist).saturated
    /\ Last(hist).repeats = 2
    /\ Len(current_assignments) = 1

\* C5 as stated: every rotate_players round rests exactly
\* max(0, len(all_players) - num_courts*4) players.
C5_RestsExactlyNumToSitOut ==
    op = "rotate" =>
        Len(current_sitting_out) = Max(0, Len(all_players) - num_courts * 4)

\* C5 as amended: the ranking selects exactly max(0, n - num_courts*4)
\* resters, and with the players the pairing engine leaves unseated the
\* sitting-out list has n - 4*min(num_courts, floor(n/4)) players, which is
\* max(0, n - num_courts*4) whenever n >= num_courts*4.
C5_RestsAllButTheSeated ==
    op = "rotate" =>
        LET n == Len(all_players)
        IN  /\ Cardinality(Last(hist).ranked) = Max(0, n - num_courts * 4)
            /\ Len(current_sitting_out) = n - 4 * Min(num_courts, n \div 4)
            /\ n >= num_courts * 4 =>
                Len(current_sitting_out) = Max(0, n - num_courts * 4)

\* a round with more seats than players: nobody is ranked out and the pairing
\* engine's leftover rests
C5_Witness ==
    /\ op = "rotate"
    /\ Len(all_players) >= 4
    /\ Len(all_players) < num_courts * 4
    /\ Last(hist).ranked = {}
    /\ Len(current_sitting_out) = Len(all_players) - 4

\* C6 as stated: across every rotate_players call exactly one of games_played
\* and games_sat_out goes up by 1 for every player of the roster, and the
\* other is unchanged.
C6_ExactlyOneCounterUp ==
    [][RotateStep =>
        \A p \in Range(all_players) :
            \/ /\ games_played'[p] = games_played[p] + 1
               /\ games_sat_out'[p] = games_sat_out[p]
            \/ /\ games_played'[p] = games_played[p]
               /\ games_sat_out'[p] = games_sat_out[p] + 1]_vars

\* C7: with 5 players and 1 court every round has exactly 1 player sitting
\* out, and in any 5 consecutive rounds each player sits out exactly once.
C7_FiveTakeTurns ==
    /\ game_started => Len(current_sitting_out) = 1
    /\ \A i \in DOMAIN hist : Cardinality(hist[i].rested) = 1
    /\ \A i \in 1..(Len(hist) - 4) : \A p \in Range(all_players) :
        Cardinality({j \in i..(i + 4) : p \in hist[j].rested}) = 1

\* seven rounds were played: three windows of 5 consecutive rounds
C7_Witness ==
    /\ op = "rotate"
    /\ Len(all_players) = 5
    /\ num_courts = 1
    /\ Len(hist) >= 7

\* C8: on a roster of fewer than 4 players rotate_players returns no court
\* and the whole roster as the sitting-out list, every player with status
\* sitting_out, and records no partnership.
C8_TooFewAllRest ==
    [][(RotateStep /\ Len(all_players) < 4) =>
        /\ current_assignments' = << >>
        /\ Len(current_sitting_out') = Len(all_players)
        /\ Range(current_sitting_out') = Range(all_players)
        /\ \A p \in Range(all_players) : current_status'[p] = "sitting_out"
        /\ partners' = partners]_vars

\* a round on a roster of 3, which keeps the partnerships of earlier rounds
C8_Witness ==
    /\ op = "rotate"
    /\ Len(all_players) = 3
    /\ current_assignments = << >>
    /\ Len(current_sitting_out) = 3
    /\ \E p \in Range(all_players) : partners[p] # {}

\* C9: at the end of every round every player with status sitting_out has
\* played_consecutive_games = 0.
C9_RestersHaveNoStreak ==
    \A p \in Range(all_players) :
        current_status[p] = "sitting_out" => played_consecutive_games[p] = 0

\* a round in which the ranking rested a player who was seated in the round
\* before, and another in which the pairing engine left a seated player out
C9_Witness ==
    /\ op = "rotate"
    /\ Len(hist) >= 3
    /\ \E p \in Last(hist).ranked : p \in hist[Len(hist) - 1].seated
    /\ \E q \in Range(all_players) : played_consecutive_games[q] >= 2

\* C10: at the end of every round every roster player is playing or
\* sitting_out, playing iff seated in a returned court and sitting_out iff in
\* the returned sitting-out list.
C10_StatusMatchesRound ==
    op \in {"start", "rotate"} =>
        \A p \in Range(all_players) :
            /\ current_status[p] \in {"playing", "sitting_out"}
            /\ current_status[p] = "playing"
                <=> p \in Seated(current_assignments)
            /\ current_status[p] = "sitting_out"
                <=> p \in Range(current_sitting_out)

\* a round with players seated, a player rested by the ranking and none
\* available
C10_Witness ==
    /\ op = "rotate"
    /\ Last(hist).ranked # {}
    /\ \E p \in Range(all_players) : current_status[p] = "playing"
    /\ \E p \in Last(hist).ranked : current_status[p] = "sitting_out"

\* the rounds among the first k of the session in which p was seated
RoundsSeated(p, k) == {i \in 1..k : p \in hist[i].seated}

\* the rounds among the first k of the session in which p rested
RoundsRested(p, k) == {i \in 1..k : p \in hist[i].rested}

\* the number of most recent consecutive rounds in which p was seated
Streak(p) ==
    Cardinality({k \in 1..Len(hist) :
        \A j \in (Len(hist) - k + 1)..Len(hist) : p \in hist[j].seated})

\* C11 as stated: at the end of every round every player's games_played is
\* the number of rounds so far, the one just assigned included, in which the
\* player was seated on a court.
C11_PlayedCountsRoundsSoFar ==
    \A p \in Range(all_players) :
        games_played[p] = Cardinality(RoundsSeated(p, Len(hist)))

\* C11 as amended: at the end of every round every player's games_played is
\* the number of earlier rounds in which the player was seated; the round
\* just assigned is counted by the bookkeeping of the next rotate_players
\* call, so the count of all rounds so far is games_played plus 1 for a
\* player whose status is playing.
C11_PlayedCountsEarlierRounds ==
    \A p \in Range(all_players) :
        /\ games_played[p] = Cardinality(RoundsSeated(p, Len(hist) - 1))
        /\ Cardinality(RoundsSeated(p, Len(hist)))
            = games_played[p] + (IF current_status[p] = "playing" THEN 1 ELSE 0)

\* after three rounds a player seated in all of them has games_played = 2 and
\* another who rested in between has games_played = 1
C11_Witness ==
    /\ op = "rotate"
    /\ Len(hist) = 3
    /\ \E p \in Range(all_players) :
        /\ Cardinality(RoundsSeated(p, 3)) = 3
        /\ games_played[p] = 2
    /\ \E q \in Range(all_players) :
        /\ q \in hist[1].seated /\ q \in hist[2].rested /\ q \in hist[3].seated
        /\ games_played[q] = 1

\* C12 as stated: at the end of every round every player's games_sat_out is
\* the number of rounds so far in which the player was in the sitting-out
\* list: no rest is counted twice and none is missed.
C12_SatOutCountsRests ==
    \A p \in Range(all_players) :
        games_sat_out[p] = Cardinality(RoundsRested(p, Len(hist)))

\* C13: at the end of every round every player's played_consecutive_games is
\* the number of most recent consecutive rounds, ending with the round just
\* completed, in which the player was seated: 0 if the player rested in it.
C13_StreakIsConsecutiveRounds ==
    \A p \in Range(all_players) :
        /\ played_consecutive_games[p] = Streak(p)
        /\ (hist # << >> /\ p \in Last(hist).rested) =>
                played_consecutive_games[p] = 0

\* after four rounds one player has a streak of 3 or more, another came back
\* from a rest into a streak of 1 and a third has just rested
C13_Witness ==
    /\ op = "rotate"
    /\ Len(hist) = 4
    /\ \E p \in Range(all_players) : played_consecutive_games[p] >= 3
    /\ \E q \in Range(all_players) :
        /\ q \in hist[2].seated /\ q \in hist[3].rested
        /\ played_consecutive_games[q] = 1
    /\ \E r \in Last(hist).rested : r \in hist[3].seated

\* C14: after any sequence of rounds and removals every roster player's
\* partners set holds only players of the roster and never the player
\* itself; so right after remove_player_logic no remaining player's partners
\* set holds the removed player.
C14_PartnersInRosterNotSelf ==
    \A p \in Range(all_players) :
        /\ partners[p] \subseteq Range(all_players)
        /\ p \notin partners[p]

\* a removal took away the only partner of a player seated in every round,
\* and a later round gives that player a partner again
C14_Witness ==
    /\ op = "rotate"
    /\ removed = 1
    /\ Len(hist) >= 2
    /\ \E p \in Range(all_players) :
        /\ \A i \in DOMAIN hist : p \in hist[i].seated
        /\ Cardinality(partners[p]) = 1
        /\ Len(all_players) = 4

\* C15 as stated: with 4 players and 1 court only one pairing is possible, so
\* the two partnerships of the second round are the two of the first round.
C15_SecondRoundRepeatsFirst ==
    Len(hist) >= 2 => hist[2].repeats = 2

\* C15 as amended: with 4 players and 1 court every round seats all four and
\* rests nobody; the first three rounds form no partnership that was formed
\* before, so they use the three possible pairings of four players one after
\* another, and from the fourth round on both partnerships of every round
\* are repeats.
C15_ThreePairingsThenRepeats ==
    \A i \in DOMAIN hist :
        /\ Cardinality(hist[i].seated) = 4
        /\ hist[i].rested = {}
        /\ i <= 3 => hist[i].repeats = 0 /\ ~hist[i].saturated
        /\ i >= 4 => hist[i].repeats = 2 /\ hist[i].saturated
        /\ i = Len(hist) =>
                \A p \in Range(all_players) :
                    Cardinality(partners[p]) = Min(i, 3)

\* the fifth round of a roster of 4 on 1 court: two rounds of forced repeats
\* after the three distinct pairings
C15_Witness ==
    /\ op = "rotate"
    /\ Len(all_players) = 4
    /\ num_courts = 1
    /\ Len(hist) >= 5
    /\ hist[2].repeats = 0
    /\ hist[5].repeats = 2

\* C16: with 8 players on 2 courts rotated repeatedly, whatever the random
\* tiebreaks are, every player has at least 2 distinct partners after a
\* bounded number of rounds: after the third.  The second round leaves
\* either nobody with a single partner or exactly one team of two who
\* partnered in the first round, everyone else with two partners, no three of
\* them partners of each other, and all players level on games_played,
\* streak and status; the third round gives both a second partner.
C16_NoPermanentLock ==
    /\ Len(hist) = 2 =>
        /\ \A p \in Range(all_players) :
            /\ games_played[p] = 1
            /\ played_consecutive_games[p] = 2
            /\ current_status[p] = "playing"
            /\ p \notin Locked => Cardinality(partners[p]) = 2
            /\ p \in Locked => Cardinality(partners[p]) = 1
            /\ p \in Locked => partners[p] \subseteq Locked
            /\ \A q \in partners[p] : partners[p] \cap partners[q] = {}
        /\ Cardinality(Locked) \in {0, 2}
    /\ Len(hist) >= 3 => Locked = {}

\* the second round repeated a partnership of the first and the third round
\* gave everyone a second partner
C16_Witness ==
    /\ op = "rotate"
    /\ Len(all_players) = 8
    /\ Len(current_assignments) = 2
    /\ Len(hist) = 3
    /\ hist[2].repeats = 1
    /\ \A p \in Range(all_players) : Cardinality(partners[p]) >= 2

\* C17 as stated: every player rotate_players rests by the fairness ranking
\* has games_sat_out one higher and played_consecutive_games 0 when the call
\* returns.
C17_RankedRestersCountedAtOnce ==
    [][RotateStep =>
        \A p \in Last(hist').ranked :
            /\ games_sat_out'[p] = games_sat_out[p] + 1
            /\ played_consecutive_games'[p] = 0]_vars

\* C17 as amended: a player rested by the fairness ranking leaves the call
\* with status sitting_out and played_consecutive_games 0, but the call does
\* not raise games_sat_out for this rest: within the call the counter changes
\* only by the bookkeeping of a rest in the previous round, and the rest of
\* this round is counted by the bookkeeping of the next call.  So the ranked
\* resters do not get the immediate increment the absorbed players get.
C17_RankedRestersCountedNextCall ==
    [][RotateStep =>
        \A p \in Last(hist').ranked :
            /\ current_status'[p] = "sitting_out"
            /\ played_consecutive_games'[p] = 0
            /\ games_sat_out'[p] = games_sat_out[p]
                + (IF current_status[p] = "sitting_out" THEN 1 ELSE 0)]_vars

\* a player seated in the first two rounds is rested by the ranking in the
\* third and leaves it with games_sat_out = 0
C17_Witness ==
    /\ op = "rotate"
    /\ Len(hist) = 3
    /\ \E p \in Last(hist).ranked :
        /\ p \in hist[1].seated /\ p \in hist[2].seated
        /\ games_sat_out[p] = 0
        /\ played_consecutive_games[p] = 0
        /\ current_status[p] = "sitting_out"

\* the key of line 230 without its random last component, on the fields ps
SitOutKey(p, ps) ==
    <<0 - ps.played_consecutive_games[p], 0 - ps.games_played[p],
      ps.games_sat_out[p]>>

\* x is before y or equal to it in lexicographic order
LexLeq(x, y) ==
    \/ x[1] < y[1]
    \/ x[1] = y[1] /\ x[2] < y[2]
    \/ x[1] = y[1] /\ x[2] = y[2] /\ x[3] <= y[3]

\* C18: when num_to_sit_out > 0 the players rotate_players rests are the
\* first num_to_sit_out in ascending order of the key
\* (-played_consecutive_games, -games_played, games_sat_out) taken after the
\* bookkeeping step: the returned list is in key order and the key of every
\* player in it is at most the key of every player not in it, so that chance
\* decides only between players with equal keys.
C18_RestersAreFirstInKeyOrder ==
    [][(RotateStep /\ Len(all_players) > num_courts * 4) =>
        LET booked == Bookkeeping(Roster)
            chosen == current_sitting_out'
        IN  /\ Len(chosen) = Len(all_players) - num_courts * 4
            /\ Range(chosen) = Last(hist').ranked
            /\ \A i \in DOMAIN chosen : \A j \in DOMAIN chosen :
                    i < j => LexLeq(SitOutKey(chosen[i], booked),
                                    SitOutKey(chosen[j], booked))
            /\ \A S \in Range(chosen) :
               \A T \in Range(all_players) \ Range(chosen) :
                    LexLeq(SitOutKey(S, booked), SitOutKey(T, booked))]_vars

\* in the third round of 9 players on 1 court the fifth rester and a player
\* who stays in both rested in the second round, and games_played decides
\* between them: the one rested has played more
C18_Witness ==
    /\ op = "rotate"
    /\ Len(all_players) = 9
    /\ Len(hist) = 3
    /\ \E S \in Last(hist).ranked : \E T \in Last(hist).seated :
        /\ S \in hist[2].rested
        /\ T \in hist[2].rested
        /\ games_played[S] > games_played[T]

\* a step that is a round: the first by start_game_logic or a later one by
\* rotate_players
RoundStep == op' \in {"start", "rotate"} /\ hist' # hist

\* the partners sets the pairing engine is called with: empty for the new
\* players of start_game_logic
PartnersBefore ==
    IF op' = "start" THEN [p \in Range(all_players') |-> {}] ELSE partners

\* the candidates not yet assigned when the pairing engine starts on the
\* i-th court it forms
CandidatesAt(i) ==
    (Range(all_players') \ Last(hist').ranked)
        \ Seated(SubSeq(current_assignments', 1, i - 1))

\* pick is taken from avail by the partner rule for anchor: a player who has
\* partnered the anchor only if all of avail have, and else one with the
\* fewest partners among those who have not
PickedByPartnerRule(anchor, pick, avail, prt) ==
    LET fresh == {q \in avail : q \notin prt[anchor]}
    IN  /\ pick \in avail
        /\ pick \in prt[anchor] => fresh = {}
        /\ fresh # {} =>
            /\ pick \in fresh
            /\ \A q \in fresh :
                Cardinality(prt[pick]) <= Cardinality(prt[q])

\* C19: in every court formed, P2 has partnered P1 before only if every
\* candidate still unassigned when P2 is picked has; whenever one who has not
\* is available, P2 is one of those with the fewest partners among them.  The
\* same holds for P4 with respect to P3.
C19_PartnerIsNewWhenPossible ==
    [][RoundStep =>
        \A i \in DOMAIN current_assignments' :
            LET court == current_assignments'[i]
                cands == CandidatesAt(i)
            IN  /\ PickedByPartnerRule(court[1], court[2],
                        cands \ {court[1]}, PartnersBefore)
                /\ PickedByPartnerRule(court[3], court[4],
                        cands \ {court[1], court[2], court[3]},
                        PartnersBefore)]_vars

\* the third round of 5 players on 1 court: P2 came to the round with one
\* partner while another player who had not partnered P1 either, seated as
\* P3 or P4, came with two
C19_Witness ==
    /\ op = "rotate"
    /\ Len(all_players) = 5
    /\ removed = 0
    /\ Len(hist) = 3
    /\ Len(current_assignments) = 1
    /\ Last(hist).repeats = 0
    /\ Cardinality(partners[current_assignments[1][2]]) = 2
    /\ \E q \in {current_assignments[1][3], current_assignments[1][4]} :
        /\ q \notin partners[current_assignments[1][1]]
        /\ Cardinality(partners[q]) = 3

\* C20: in every court formed the anchor P1 has the fewest partners among
\* the candidates unassigned at that point and, among those with as few, the
\* fewest games_played; P3 has the fewest partners among the candidates
\* still unassigned once P1 and P2 are seated.
C20_AnchorsHaveFewestPartners ==
    [][RoundStep =>
        \A i \in DOMAIN current_assignments' :
            LET court == current_assignments'[i]
                cands == CandidatesAt(i)
                prt == PartnersBefore
                n(q) == Cardinality(prt[q])
            IN  /\ court[1] \in cands
                /\ \A q \in cands :
                    \/ n(court[1]) < n(q)
                    \/ /\ n(court[1]) = n(q)
                       /\ games_played'[court[1]] <= games_played'[q]
                /\ court[3] \in cands \ {court[1], court[2]}
                /\ \A q \in cands \ {court[1], court[2]} :
                    n(court[3]) <= n(q)]_vars

\* after a removal took away the first-round partner of a player, that
\* player and the first round's rester both come to the second round
\* without a partner, and games_played makes the rester the anchor
C20_Witness ==
    /\ op = "rotate"
    /\ removed = 1
    /\ Len(hist) = 2
    /\ Len(current_assignments) = 1
    /\ current_assignments[1][1] \in hist[1].rested
    /\ games_played[current_assignments[1][1]] = 0
    /\ \E q \in Range(all_players) :
        /\ q \in hist[1].seated /\ q \in hist[2].seated
        /\ Cardinality(partners[q]) = 1
        /\ games_played[q] = 1

\* the teammate of the player in seat j of a court: seats 1, 2 and seats 3, 4
Teammate(court, j) == court[IF j \in {1, 3} THEN j + 1 ELSE j - 1]

\* C21: when a court [P1, P2, P3, P4] is formed only the teammate
\* partnerships are recorded: a seated player's partners set gains its
\* teammate and nobody else, not an opponent nor a player of another court;
\* the partners set of every player not seated in the round is unchanged; so
\* no partners set loses a member in a round.
C21_OnlyTeammatesRecorded ==
    [][RoundStep =>
        /\ \A i \in DOMAIN current_assignments' : \A j \in 1..4 :
            LET court == current_assignments'[i]
            IN  partners'[court[j]]
                    = PartnersBefore[court[j]] \cup {Teammate(court, j)}
        /\ \A p \in Range(all_players') \ Seated(current_assignments') :
            partners'[p] = PartnersBefore[p]
        /\ \A p \in Range(all_players') :
            PartnersBefore[p] \subseteq partners'[p]]_vars

\* after the third round of 5 players P1 has partnered two teammates and
\* neither of its opponents, and the player resting keeps the two partners
\* of the rounds before
C21_Witness ==
    /\ op = "rotate"
    /\ Len(hist) = 3
    /\ Len(current_assignments) = 1
    /\ Cardinality(partners[current_assignments[1][1]]) = 2
    /\ current_assignments[1][3] \notin partners[current_assignments[1][1]]
    /\ current_assignments[1][4] \notin partners[current_assignments[1][1]]
    /\ \E p \in Last(hist).rested : Cardinality(partners[p]) = 2

\* the player fields the pairing engine is called with in a round: new
\* players in start_game_logic (line 402), the roster after the bookkeeping
\* step in rotate_players (line 239)
FieldsBefore ==
    IF op' = "start" THEN NewPlayers(Range(all_players'))
    ELSE Bookkeeping(Roster)

\* the list the pairing engine returned as unassigned in a round: the
\* sitting-out list after the players the ranking put in it
UnassignedReturned ==
    SubSeq(current_sitting_out', Cardinality(Last(hist').ranked) + 1,
           Len(current_sitting_out'))

\* C22: assign_players_to_courts changes no player's games_played or
\* games_sat_out; every candidate it does not seat is in the unassigned list
\* it returns, once, with status sitting_out and played_consecutive_games 0;
\* every player it seats has status playing and played_consecutive_games one
\* higher than before the call.
C22_PairingEngineFrame ==
    [][RoundStep =>
        LET before == FieldsBefore
            res == assign_players_to_courts(before, current_assignments',
                                            UnassignedReturned)
            cands == Range(all_players') \ Last(hist').ranked
            seats == Seated(res.courts)
        IN  /\ res.ps.games_played = before.games_played
            /\ res.ps.games_sat_out = before.games_sat_out
            /\ games_played' = before.games_played
            /\ Range(res.unassigned) = cands \ seats
            /\ Len(res.unassigned) = Cardinality(cands \ seats)
            /\ \A p \in cands \ seats :
                /\ res.ps.current_status[p] = "sitting_out"
                /\ res.ps.played_consecutive_games[p] = 0
            /\ \A p \in seats :
                /\ p \in cands
                /\ res.ps.current_status[p] = "playing"
                /\ res.ps.played_consecutive_games[p]
                    = before.played_consecutive_games[p] + 1
                /\ current_status'[p] = "playing"
                /\ played_consecutive_games'[p]
                    = before.played_consecutive_games[p] + 1]_vars

\* a round of 5 players and 2 courts in which the pairing engine left out a
\* player who had been seated in the two rounds before, and seated the
\* others for a streak of 2 or more
C22_Witness ==
    /\ op = "rotate"
    /\ Len(hist) = 3
    /\ Len(all_players) = 5
    /\ num_courts = 2
    /\ Last(hist).ranked = {}
    /\ \E p \in Last(hist).rested :
        /\ p \in hist[1].seated /\ p \in hist[2].seated
        /\ played_consecutive_games[p] = 0
    /\ \E q \in Last(hist).seated : played_consecutive_games[q] >= 2

\* the candidates a direct call left without a seat, counted
LeftOver == Len(all_players) - 4 * Len(current_assignments)

\* a direct call gave a court up: an iteration of the loop was left, its
\* candidates were enough for line 119 and too few for the four seats
Aborted ==
    /\ op = "assign"
    /\ Len(current_assignments) < num_courts
    /\ LeftOver >= ppc_arg
    /\ LeftOver < 4

\* C23: in assign_players_to_courts, for any players_per_court >= 1, when no
\* candidate is left for a seat of the court being built the court is given
\* up: the players placed in it so far are returned as unassigned, are not
\* marked playing and get no partnership, and no court is added to the
\* result after that; every court of the result has four different players.
C23_AbortReleasesThePlaced ==
    [][(op' = "assign" /\ hist' # hist) =>
        LET before == IF hist = << >>
                        THEN [p \in Range(all_players') |-> {}] ELSE partners
            courts == current_assignments'
            left == Range(all_players') \ Seated(courts)
            n == Len(all_players')
            need == Max(ppc_arg', 4)
        IN  /\ \A i \in DOMAIN courts :
                Len(courts[i]) = 4 /\ Cardinality(Range(courts[i])) = 4
            /\ Range(current_sitting_out') = left
            /\ Len(current_sitting_out') = Cardinality(left)
            /\ \A p \in left :
                /\ current_status'[p] = "sitting_out"
                /\ played_consecutive_games'[p] = 0
                /\ partners'[p] = before[p]
            /\ Len(courts) = Min(num_courts',
                    IF n < need THEN 0 ELSE (n - need) \div 4 + 1)
            /\ (Len(courts) < num_courts' /\ Cardinality(left) >= ppc_arg')
                    => Cardinality(left) < 4]_vars

\* a call with players_per_court = 2 on 6 players and 2 courts formed one
\* court and gave the second up after placing P1 and P2: both are returned
\* unassigned and without a partner
C23_Witness ==
    /\ Aborted
    /\ Len(all_players) = 6
    /\ ppc_arg = 2
    /\ Len(hist) = 1
    /\ Len(current_assignments) = 1
    /\ Len(current_sitting_out) = 2
    /\ \A p \in Range(current_sitting_out) :
        partners[p] = {} /\ current_status[p] = "sitting_out"

\* C24: with a fixed roster of n players on c courts, 4c < n <= 8c, advanced
\* by rotate_players after the first round, no player is in the sitting-out
\* list of two consecutive rounds.
C24_NoTwoRestsInARow ==
    \A i \in 1..(Len(hist) - 1) : hist[i].rested \cap hist[i + 1].rested = {}

\* 8 players on 1 court: the four who rested in the first round played the
\* second and rest again in the third
C24_Witness ==
    /\ op = "rotate"
    /\ Len(hist) = 3
    /\ Len(all_players) = 2 * players_per_court * num_courts
    /\ hist[3].rested = hist[1].rested
    /\ hist[2].rested = hist[1].seated
    /\ Cardinality(hist[3].rested) = 4

\* C25: start_game_logic refuses an invalid configuration (no names, a court
\* count that is not a number or not positive, fewer than 4 players): the
\* pairing engine is not called and all_players, num_courts, game_number,
\* game_started and session_id stay as they were; so a start that changes
\* the session has at least 4 players and at least 1 court.
C25_InvalidStartChangesNothing ==
    [][/\ op' = "rejected" =>
            /\ UNCHANGED <<all_players, num_courts, game_number,
                           game_started, session_id>>
            /\ UNCHANGED <<current_assignments, current_sitting_out, hist,
                           partners, games_played, games_sat_out,
                           current_status, played_consecutive_games>>
       /\ (op' = "start" /\ hist' # hist) =>
            /\ Len(all_players') >= 4
            /\ num_courts' >= 1
            /\ game_number' = 1
            /\ game_started']_vars

\* a start was refused and the session is still the one before any game
C25_Witness ==
    /\ op = "rejected"
    /\ ~game_started
    /\ all_players = << >>
    /\ num_courts = 0
    /\ game_number = 0
    /\ session_id = 0
    /\ hist = << >>

\* C26: with a session active, after any sequence of create_session_logic and
\* next_game_logic the stored history list has at most one state per
\* game_number, in strictly increasing order, its last entry is the state of
\* the current game, and the session's row in the sheet holds that list.
C26_HistoryFollowsTheGame ==
    session_id # 0 =>
        /\ session_id \in DOMAIN store
        /\ session_id \in DOMAIN sheet
        /\ LET h == store[session_id]
           IN  /\ h # << >>
               /\ \A i \in 1..(Len(h) - 1) :
                    h[i].game_number < h[i + 1].game_number
               /\ Last(h) = get_current_state_for_history(
                                game_number, num_courts, current_assignments,
                                current_sitting_out, all_players, Roster)
               /\ JsonLoads(sheet[session_id]) = h

\* a session created at game 2 whose history also has game 3
C26_Witness ==
    /\ session_id # 0
    /\ op = "rotate"
    /\ game_number = 3
    /\ Len(store[session_id]) = 2
    /\ store[session_id][1].game_number = 2
    /\ store[session_id][2].game_number = 3

\* C27: a save of one session leaves every other session's row in the sheet
\* with its latest saved data, also when the saves of two sessions
\* interleave: whenever a session is not saving, its row holds its history.
C27_SavesKeepOtherRows ==
    \A sid \in 1..MaxSessions :
        (saver[sid].pc = "idle" /\ saver[sid].history # << >>) =>
            /\ sid \in DOMAIN sheet
            /\ JsonLoads(sheet[sid]) = saver[sid].history

====
